---- MODULE Spec2Model ----
(***************************************************************************)
(* Model of the video transcription / question backend:                    *)
(*   - TranscriptionService.segmentTranscript and                          *)
(*     ensureMinimumSegmentLength (the segment merger),                    *)
(*   - QuestionController.generateQuiz / submitQuiz / shuffleArray,        *)
(*   - ErrorHandler.error (the error envelope).                            *)
(*                                                                         *)
(* A JavaScript string is modelled by the sequence of tokens that          *)
(* text.split(' ') returns for it: "" is <<"">>, "a b" is <<"a","b">>,      *)
(* " b" is <<"","b">>.  a + ' ' + b is then the concatenation a \o b and   *)
(* text.split(' ').length is Len.  Tokens hold no whitespace other than    *)
(* the separating spaces.  Times are integers (seconds).                   *)
(***************************************************************************)
EXTENDS Integers, Sequences, FiniteSets, TLC

VARIABLES
    transcriptData,   \* the parsed Whisper JSON handed to segmentTranscript
    segResult,        \* outcome of the last segmentTranscript call
    video,            \* the persisted Video document (or NoVideo)
    request,          \* the last HTTP request handled
    response,         \* the response (or error envelope) it produced
    clock,            \* Date.now(), in milliseconds
    generation,       \* the last generateQuestions call: its inputs and result
    tasks,            \* the background tasks and multi-step handlers in flight
    quizLog           \* the quizIds handed out so far

vars == <<transcriptData, segResult, video, request, response, clock,
          generation, tasks, quizLog>>

\* ---------------------------------------------------------------- bounds
MaxFragments == 3
MaxPool == 3
MaxAnswers == 2
MaxClock == 1

\* ------------------------------------------------------ program constants
segmentDuration == 300
minWords == 50

\* ------------------------------------------------------------------ text
EmptyText == <<"">>

RECURSIVE Words(_, _)
\* n copies of the word w, separated by single spaces
Words(n, w) == IF n = 0 THEN <<>> ELSE <<w>> \o Words(n - 1, w)

RECURSIVE DropLeadingBlank(_)
DropLeadingBlank(t) ==
    IF t = <<>> THEN <<>>
    ELSE IF Head(t) = "" THEN DropLeadingBlank(Tail(t)) ELSE t

RECURSIVE DropTrailingBlank(_)
DropTrailingBlank(t) ==
    IF t = <<>> THEN <<>>
    ELSE IF t[Len(t)] = "" THEN DropTrailingBlank(SubSeq(t, 1, Len(t) - 1)) ELSE t

\* mutant of trim: strips only the leading whitespace
trimStartOnly(t) ==
    LET s == DropLeadingBlank(t) IN IF s = <<>> THEN EmptyText ELSE s

\* String.prototype.trim
trim(t) ==
    LET s == DropTrailingBlank(DropLeadingBlank(t))
    IN  IF s = <<>> THEN EmptyText ELSE s

\* text.split(' ').length
wordCount(text) == Len(text)

\* ------------------------------------------------------- segment merger
NewSegment(startTime, endTime, text, segmentIndex) ==
    [startTime |-> startTime, endTime |-> endTime,
     text |-> text, segmentIndex |-> segmentIndex]

RECURSIVE CoarsePassIncoming(_, _, _, _)
\* mutant of CoarsePass: decides on the incoming fragment's duration
CoarsePassIncoming(frags, currentSegment, segments, segmentIndex) ==
    IF frags = <<>>
    THEN segments \o currentSegment
    ELSE
      LET segment   == Head(frags)
          startTime == IF segment.start # 0 THEN segment.start ELSE 0
          endTime   == IF segment.end # 0 THEN segment.end ELSE startTime + 1
          text      == trim(segment.text)
      IN
        IF text = EmptyText
        THEN CoarsePassIncoming(Tail(frags), currentSegment, segments, segmentIndex)
        ELSE IF currentSegment = <<>>
        THEN CoarsePassIncoming(Tail(frags),
                        <<NewSegment(startTime, endTime, text, segmentIndex)>>,
                        segments, segmentIndex)
        ELSE IF endTime - startTime >= segmentDuration
        THEN CoarsePassIncoming(Tail(frags),
                        <<NewSegment(startTime, endTime, text, segmentIndex + 1)>>,
                        Append(segments, currentSegment[1]),
                        segmentIndex + 1)
        ELSE CoarsePassIncoming(Tail(frags),
                        <<[currentSegment[1] EXCEPT !.endTime = endTime,
                                                    !.text = @ \o text]>>,
                        segments, segmentIndex)

RECURSIVE CoarsePass(_, _, _, _)
\* the for-loop of segmentTranscript; currentSegment is <<>> (null) or <<seg>>
CoarsePass(frags, currentSegment, segments, segmentIndex) ==
    IF frags = <<>>
    THEN segments \o currentSegment
    ELSE
      LET segment   == Head(frags)
          startTime == IF segment.start # 0 THEN segment.start ELSE 0
          endTime   == IF segment.end # 0 THEN segment.end ELSE startTime + 1
          text      == trim(segment.text)
      IN
        IF text = EmptyText
        THEN CoarsePass(Tail(frags), currentSegment, segments, segmentIndex)
        ELSE IF currentSegment = <<>>
        THEN CoarsePass(Tail(frags),
                        <<NewSegment(startTime, endTime, text, segmentIndex)>>,
                        segments, segmentIndex)
        ELSE IF currentSegment[1].endTime - currentSegment[1].startTime
                    >= segmentDuration
        THEN CoarsePass(Tail(frags),
                        <<NewSegment(startTime, endTime, text, segmentIndex + 1)>>,
                        Append(segments, currentSegment[1]),
                        segmentIndex + 1)
        ELSE CoarsePass(Tail(frags),
                        <<[currentSegment[1] EXCEPT !.endTime = endTime,
                                                    !.text = @ \o text]>>,
                        segments, segmentIndex)

RECURSIVE MinLengthPassRunning(_, _, _)
\* mutant of MinLengthPass: decides on the running segment's word count
MinLengthPassRunning(segments, currentSegment, result) ==
    IF segments = <<>>
    THEN result \o currentSegment
    ELSE
      LET segment == Head(segments) IN
        IF currentSegment = <<>>
        THEN MinLengthPassRunning(Tail(segments), <<segment>>, result)
        ELSE IF wordCount(currentSegment[1].text) < minWords
        THEN MinLengthPassRunning(Tail(segments),
                           <<[currentSegment[1] EXCEPT !.endTime = segment.endTime,
                                                       !.text = @ \o segment.text]>>,
                           result)
        ELSE MinLengthPassRunning(Tail(segments), <<segment>>,
                           Append(result, currentSegment[1]))

RECURSIVE MinLengthPassNoMerge(_, _, _)
\* mutant of MinLengthPass: every coarse segment is emitted on its own
MinLengthPassNoMerge(segments, currentSegment, result) ==
    IF segments = <<>>
    THEN result \o currentSegment
    ELSE MinLengthPassNoMerge(Tail(segments), <<Head(segments)>>,
                              result \o currentSegment)

RECURSIVE MinLengthPassPrepend(_, _, _)
\* mutant of MinLengthPass: a merged segment's text goes before the running text
MinLengthPassPrepend(segments, currentSegment, result) ==
    IF segments = <<>>
    THEN result \o currentSegment
    ELSE
      LET segment == Head(segments) IN
        IF currentSegment = <<>>
        THEN MinLengthPassPrepend(Tail(segments), <<segment>>, result)
        ELSE IF wordCount(segment.text) < minWords
        THEN MinLengthPassPrepend(Tail(segments),
                           <<[currentSegment[1] EXCEPT !.endTime = segment.endTime,
                                                       !.text = segment.text \o @]>>,
                           result)
        ELSE MinLengthPassPrepend(Tail(segments), <<segment>>,
                           Append(result, currentSegment[1]))

RECURSIVE MinLengthPassKeepEnd(_, _, _)
\* mutant of MinLengthPass: merging appends the text and keeps the endTime
MinLengthPassKeepEnd(segments, currentSegment, result) ==
    IF segments = <<>>
    THEN result \o currentSegment
    ELSE
      LET segment == Head(segments) IN
        IF currentSegment = <<>>
        THEN MinLengthPassKeepEnd(Tail(segments), <<segment>>, result)
        ELSE IF wordCount(segment.text) < minWords
        THEN MinLengthPassKeepEnd(Tail(segments),
                           <<[currentSegment[1] EXCEPT !.text = @ \o segment.text]>>,
                           result)
        ELSE MinLengthPassKeepEnd(Tail(segments), <<segment>>,
                           Append(result, currentSegment[1]))

RECURSIVE MinLengthPass(_, _, _)
\* the for-loop of ensureMinimumSegmentLength
MinLengthPass(segments, currentSegment, result) ==
    IF segments = <<>>
    THEN result \o currentSegment
    ELSE
      LET segment == Head(segments) IN
        IF currentSegment = <<>>
        THEN MinLengthPass(Tail(segments), <<segment>>, result)
        ELSE IF wordCount(segment.text) < minWords
        THEN MinLengthPass(Tail(segments),
                           <<[currentSegment[1] EXCEPT !.endTime = segment.endTime,
                                                       !.text = @ \o segment.text]>>,
                           result)
        ELSE MinLengthPass(Tail(segments), <<segment>>,
                           Append(result, currentSegment[1]))

\* mutant of Reindex: keeps the coarse pass's segmentIndex
ReindexKeep(result) == result

\* result.map((segment, index) => ({...segment, segmentIndex: index}))
Reindex(result) ==
    [i \in 1..Len(result) |-> [result[i] EXCEPT !.segmentIndex = i - 1]]

ensureMinimumSegmentLength(segments) ==
    Reindex(MinLengthPass(segments, <<>>, <<>>))

\* segmentTranscript: the outcome, with the coarse segments kept for inspection
segmentTranscript(data) ==
    IF ~data.hasSegmentsArray
    THEN [ok |-> FALSE,
          error |-> "Failed to segment transcript: Invalid transcript format: missing segments array",
          coarse |-> <<>>, segments |-> <<>>]
    ELSE LET coarse == CoarsePass(data.segments, <<>>, <<>>, 0)
         IN  [ok |-> TRUE, error |-> "",
              coarse |-> coarse,
              segments |-> ensureMinimumSegmentLength(coarse)]

\* ---------------------------------------------- inputs of the merger
ShortWord == <<"b">>
AlmostMin == Words(minWords - 1, "a")
AtMin     == Words(minWords, "c")

Frag(s, e, t) == [start |-> s, end |-> e, text |-> t]

Fragments ==
    { Frag(0, 310, t) : t \in {ShortWord, AlmostMin, AtMin} }
    \cup { Frag(310, 320, t) : t \in {ShortWord, AtMin, EmptyText, <<"", "b", "", "d", "">>} }
    \cup { Frag(0, 10, t) : t \in {ShortWord, <<"", "b">>, <<"", "">>} }
    \cup { Frag(20, 5, ShortWord), Frag(5, 0, ShortWord) }
    \cup { Frag(1, 301, AtMin), Frag(301, 305, ShortWord), Frag(320, 700, AtMin) }

FragmentSeqs == UNION { [1..n -> Fragments] : n \in 0..MaxFragments }

NoResult == [ok |-> FALSE, error |-> "not called", coarse |-> <<>>, segments |-> <<>>]

NoVideo == [exists |-> FALSE, questions |-> <<>>]
NoGeneration == [done |-> FALSE, segments |-> <<>>, llm |-> <<>>, questions |-> <<>>]
NoTasks == <<>>
NoRequest == [op |-> "none"]
NoResponse == [op |-> "none"]

\* ------------------------------------------------- merger specification
InitMerger ==
    /\ transcriptData \in
          { [hasSegmentsArray |-> TRUE, segments |-> s] : s \in FragmentSeqs }
          \cup { [hasSegmentsArray |-> FALSE, segments |-> <<>>] }
    /\ segResult = NoResult
    /\ video = NoVideo
    /\ request = NoRequest
    /\ response = NoResponse
    /\ clock = 0
    /\ generation = NoGeneration
    /\ tasks = NoTasks
    /\ quizLog = <<>>

SegmentTranscript ==
    /\ segResult = NoResult
    /\ segResult' = segmentTranscript(transcriptData)
    /\ UNCHANGED <<transcriptData, video, request, response, clock, generation, tasks, quizLog>>

NextMerger == SegmentTranscript

SpecMerger == InitMerger /\ [][NextMerger]_vars

\* ------------------------------------------------------ error envelope
\* an Error thrown by a controller: new Error(`${prefix}${message}`)
ThrownError(prefix, message) ==
    [httpCode |-> 0, name |-> "Error", code |-> "", message |-> <<prefix, message>>]

\* ErrorHandler.error: the status code and the envelope sent to the client
ErrorHandler(error) ==
    LET base ==
          IF error.httpCode # 0
          THEN [statusCode |-> error.httpCode, message |-> error.message,
                code |-> "INTERNAL_ERROR"]
          ELSE IF error.name = "ValidationError"
          THEN [statusCode |-> 400, message |-> <<"Validation Error">>,
                code |-> "VALIDATION_ERROR"]
          ELSE IF error.name = "CastError"
          THEN [statusCode |-> 400, message |-> <<"Invalid ID format">>,
                code |-> "INVALID_ID"]
          ELSE IF error.code = "11000"
          THEN [statusCode |-> 409, message |-> <<"Duplicate entry">>,
                code |-> "DUPLICATE_ENTRY"]
          ELSE IF error.name = "MongooseError"
          THEN [statusCode |-> 500, message |-> <<"Database error">>,
                code |-> "DATABASE_ERROR"]
          ELSE IF error.message # <<>>
          THEN [statusCode |-> 500, message |-> error.message,
                code |-> "INTERNAL_ERROR"]
          ELSE [statusCode |-> 500, message |-> <<"Internal Server Error">>,
                code |-> "INTERNAL_ERROR"]
    IN  IF error.code = "LIMIT_FILE_SIZE"
        THEN [statusCode |-> 413, message |-> <<"File too large">>,
              code |-> "FILE_TOO_LARGE"]
        ELSE IF error.code = "LIMIT_UNEXPECTED_FILE"
        THEN [statusCode |-> 400, message |-> <<"Unexpected file field">>,
              code |-> "UNEXPECTED_FILE"]
        ELSE base

ErrorResponse(op, error) ==
    LET e == ErrorHandler(error)
    IN  [op |-> op, ok |-> FALSE, statusCode |-> e.statusCode,
         code |-> e.code, message |-> e.message]

\* --------------------------------------------------------------- store
VideoId == "v1"
MissingId == "v0"

\* Video.findById
findById(id) == IF id = VideoId THEN video ELSE NoVideo

\* ------------------------------------------------------- quiz assembly
Min(a, b) == IF a <= b THEN a ELSE b
Max(a, b) == IF a >= b THEN a ELSE b

\* mutant of slice: the end index is taken as inclusive
sliceInclusive(array, end) ==
    SubSeq(array, 1, Min(end + 1, Len(array)))

\* array.slice(0, end)
slice(array, end) ==
    IF end >= 0
    THEN SubSeq(array, 1, Min(end, Len(array)))
    ELSE SubSeq(array, 1, Max(Len(array) + end, 0))

\* [shuffled[i], shuffled[j]] = [shuffled[j], shuffled[i]], i and j zero-based
Swap(shuffled, i, j) ==
    [shuffled EXCEPT ![i + 1] = shuffled[j + 1], ![j + 1] = shuffled[i + 1]]

RECURSIVE FisherYates(_, _)
\* the loop of shuffleArray from index i down to 1; j is any of 0..i
FisherYates(shuffled, i) ==
    IF i <= 0 THEN {shuffled}
    ELSE UNION { FisherYates(Swap(shuffled, i, j), i - 1) : j \in 0..i }

RECURSIVE FisherYatesOverwrite(_, _)
FisherYatesOverwrite(shuffled, i) ==
    IF i <= 0 THEN {shuffled}
    ELSE UNION { FisherYatesOverwrite([shuffled EXCEPT ![i + 1] = shuffled[j + 1]], i - 1) :
                 j \in 0..i }

\* mutant of shuffleArray: copies shuffled[j] into shuffled[i] without swapping
shuffleArrayOverwrite(array) == FisherYatesOverwrite(array, Len(array) - 1)

\* shuffleArray: every array the random choices can produce
shuffleArray(array) == FisherYates(array, Len(array) - 1)

RECURSIVE filterSegment(_, _)
\* questions.filter(q => q.segmentIndex === segmentIndex)
filterSegment(questions, segmentIndex) ==
    IF questions = <<>> THEN <<>>
    ELSE IF Head(questions).segmentIndex = segmentIndex
         THEN <<Head(questions)>> \o filterSegment(Tail(questions), segmentIndex)
         ELSE filterSegment(Tail(questions), segmentIndex)

RECURSIVE segmentIndicesFrom(_, _)
\* [...new Set(questions.map(q => q.segmentIndex))]: first occurrences, in order
segmentIndicesFrom(questions, seen) ==
    IF questions = <<>> THEN seen
    ELSE IF \E k \in 1..Len(seen) : seen[k] = Head(questions).segmentIndex
         THEN segmentIndicesFrom(Tail(questions), seen)
         ELSE segmentIndicesFrom(Tail(questions),
                                 Append(seen, Head(questions).segmentIndex))

RECURSIVE selectPerSegment(_, _, _)
\* the per-segment loop of generateQuiz: every selection it can produce
selectPerSegment(questions, segmentIndices, questionsPerSegment) ==
    IF segmentIndices = <<>> THEN {<<>>}
    ELSE { slice(shuffled, questionsPerSegment) \o rest :
             shuffled \in shuffleArray(filterSegment(questions, Head(segmentIndices))),
             rest \in selectPerSegment(questions, Tail(segmentIndices),
                                       questionsPerSegment) }

\* selectedQuestions before the optional whole-list shuffle
selectQuestions(questions, req) ==
    IF req.hasTotal /\ req.totalQuestions # 0
    THEN { slice(shuffled, req.totalQuestions) : shuffled \in shuffleArray(questions) }
    ELSE selectPerSegment(questions, segmentIndicesFrom(questions, <<>>),
                          req.questionsPerSegment)

\* mutant of addQuestionIndices: numbers the questions by their stored position
addStoredIndices(selectedQuestions) ==
    [i \in 1..Len(selectedQuestions) |->
        [_id |-> selectedQuestions[i]._id,
         question |-> selectedQuestions[i].question,
         correctAnswer |-> selectedQuestions[i].correctAnswer,
         explanation |-> selectedQuestions[i].explanation,
         segmentIndex |-> selectedQuestions[i].segmentIndex,
         questionIndex |-> selectedQuestions[i]._id - 1]]

\* selectedQuestions.map((q, index) => ({...q, questionIndex: index}))
addQuestionIndices(selectedQuestions) ==
    [i \in 1..Len(selectedQuestions) |->
        [_id |-> selectedQuestions[i]._id,
         question |-> selectedQuestions[i].question,
         correctAnswer |-> selectedQuestions[i].correctAnswer,
         explanation |-> selectedQuestions[i].explanation,
         segmentIndex |-> selectedQuestions[i].segmentIndex,
         questionIndex |-> i - 1]]

\* mutant of quizGuard: an empty question pool is let through
quizGuardVideoOnly(v) ==
    IF ~v.exists THEN "Video not found" ELSE ""

\* the two throws at the head of generateQuiz ("" when neither fires)
quizGuard(v) ==
    IF ~v.exists THEN "Video not found"
    ELSE IF Len(v.questions) = 0 THEN "No questions available for this video"
    ELSE ""

\* every response generateQuiz can give to req at time now
generateQuiz(req, now) ==
    LET v == findById(req.videoId)
        failure == quizGuard(v)
    IN  IF failure # ""
        THEN { ErrorResponse("generateQuiz",
                             ThrownError("Failed to generate quiz: ", failure)) }
        ELSE LET selections == selectQuestions(v.questions, req)
                 finals == IF req.shuffle
                           THEN UNION { shuffleArray(s) : s \in selections }
                           ELSE selections
             IN  { [op |-> "generateQuiz", ok |-> TRUE,
                    quizId |-> <<req.videoId, now>>,
                    questions |-> addQuestionIndices(selectedQuestions),
                    totalQuestions |-> Len(selectedQuestions)] :
                   selectedQuestions \in finals }

\* ---------------------------------------------------------------- grading
\* mutant of questionAt: an offset past the end falls back to the last question
questionAtClamped(questions, questionIndex) ==
    IF questionIndex >= 0 /\ questions # <<>>
    THEN <<questions[Min(questionIndex + 1, Len(questions))]>>
    ELSE <<>>

\* mutant of questionAt: the offset is counted from the end of the list
questionAtFromEnd(questions, questionIndex) ==
    IF questionIndex >= 0 /\ questionIndex < Len(questions)
    THEN <<questions[Len(questions) - questionIndex]>>
    ELSE <<>>

\* video.questions[answer.questionIndex]: <<>> stands for undefined
questionAt(questions, questionIndex) ==
    IF questionIndex >= 0 /\ questionIndex < Len(questions)
    THEN <<questions[questionIndex + 1]>>
    ELSE <<>>

\* mutant of MathRound: halves are rounded down
MathRoundHalfDown(num, den) == (2 * num + den - 1) \div (2 * den)

\* Math.round(num / den) for num >= 0, den > 0: halves go up
MathRound(num, den) == (2 * num + den) \div (2 * den)

RECURSIVE gradeAnswersCountGraded(_, _, _, _)
\* mutant of gradeAnswers: every graded answer adds to the score
gradeAnswersCountGraded(questions, answers, results, correctAnswers) ==
    IF answers = <<>>
    THEN [results |-> results, correctAnswers |-> correctAnswers]
    ELSE
      LET answer == Head(answers)
          question == questionAt(questions, answer.questionIndex)
      IN
        IF question # <<>>
        THEN LET isCorrect == answer.selectedAnswer = question[1].correctAnswer
             IN  gradeAnswersCountGraded(questions, Tail(answers),
                   Append(results,
                     [questionIndex |-> answer.questionIndex,
                      question |-> question[1].question,
                      selectedAnswer |-> answer.selectedAnswer,
                      correctAnswer |-> question[1].correctAnswer,
                      isCorrect |-> isCorrect,
                      explanation |-> IF question[1].explanation # ""
                                      THEN question[1].explanation
                                      ELSE "No explanation provided"]),
                   correctAnswers + 1)
        ELSE gradeAnswersCountGraded(questions, Tail(answers), results, correctAnswers)

RECURSIVE gradeAnswers(_, _, _, _)
\* the for-loop of submitQuiz
gradeAnswers(questions, answers, results, correctAnswers) ==
    IF answers = <<>>
    THEN [results |-> results, correctAnswers |-> correctAnswers]
    ELSE
      LET answer == Head(answers)
          question == questionAt(questions, answer.questionIndex)
      IN
        IF question # <<>>
        THEN LET isCorrect == answer.selectedAnswer = question[1].correctAnswer
             IN  gradeAnswers(questions, Tail(answers),
                   Append(results,
                     [questionIndex |-> answer.questionIndex,
                      question |-> question[1].question,
                      selectedAnswer |-> answer.selectedAnswer,
                      correctAnswer |-> question[1].correctAnswer,
                      isCorrect |-> isCorrect,
                      explanation |-> IF question[1].explanation # ""
                                      THEN question[1].explanation
                                      ELSE "No explanation provided"]),
                   IF isCorrect THEN correctAnswers + 1 ELSE correctAnswers)
        ELSE gradeAnswers(questions, Tail(answers), results, correctAnswers)

\* the response of submitQuiz to a submission
submitQuiz(submission) ==
    LET v == findById(submission.videoId) IN
      IF ~v.exists
      THEN ErrorResponse("submitQuiz",
                         ThrownError("Failed to submit quiz: ", "Video not found"))
      ELSE IF Len(v.questions) = 0
      THEN ErrorResponse("submitQuiz",
                         ThrownError("Failed to submit quiz: ",
                                     "No questions available for grading"))
      ELSE LET graded == gradeAnswers(v.questions, submission.answers, <<>>, 0)
               totalQuestions == Len(submission.answers)
           IN  [op |-> "submitQuiz", ok |-> TRUE,
                score |-> graded.correctAnswers,
                totalQuestions |-> totalQuestions,
                percentage |-> IF totalQuestions > 0
                               THEN MathRound(graded.correctAnswers * 100, totalQuestions)
                               ELSE 0,
                answers |-> graded.results]

\* ------------------------------------------------- inputs of the quiz
MaxPerSegment == 2
LongAnswers == 8

\* the stored questions a pool is drawn from (explanation "" is absent)
QuestionKinds ==
    { [question |-> "q0", correctAnswer |-> 0, explanation |-> "because", segmentIndex |-> 0],
      [question |-> "q1", correctAnswer |-> 3, explanation |-> "", segmentIndex |-> 0],
      [question |-> "q2", correctAnswer |-> 0, explanation |-> "", segmentIndex |-> 1] }

StoredQuestion(id, kind) ==
    [_id |-> id, question |-> kind.question, correctAnswer |-> kind.correctAnswer,
     explanation |-> kind.explanation, segmentIndex |-> kind.segmentIndex]

Pools ==
    UNION { { [i \in 1..n |-> StoredQuestion(i, kinds[i])] : kinds \in [1..n -> QuestionKinds] } :
            n \in 0..MaxPool }

QuizRequest(id, c, h, k, s) ==
    [op |-> "generateQuiz", videoId |-> id, questionsPerSegment |-> c,
     hasTotal |-> h, totalQuestions |-> k, shuffle |-> s]

\* totalQuestions given (0 included), questionsPerSegment left at its default or
\* given; totalQuestions absent; a request for a video that is not stored
QuizRequests ==
    { QuizRequest(VideoId, c, TRUE, k, s) :
        c \in {1, MaxPerSegment}, k \in 0..(MaxPool + 1), s \in BOOLEAN }
    \cup { QuizRequest(VideoId, c, FALSE, 0, s) :
        c \in 0..MaxPerSegment, s \in BOOLEAN }
    \cup { QuizRequest(MissingId, MaxPerSegment, FALSE, 0, TRUE) }

Answers ==
    { [questionIndex |-> i, selectedAnswer |-> a] :
        i \in {-1, 0, 1, MaxPool}, a \in {0, 3} }

\* n answers to the first stored question: the first k pick 0, the others 3
LongSubmission(n, k) ==
    [i \in 1..n |-> [questionIndex |-> 0,
                     selectedAnswer |-> IF i <= k THEN 0 ELSE 3]]

Submissions ==
    { [op |-> "submitQuiz", videoId |-> VideoId, answers |-> as] :
      as \in UNION { [1..n -> Answers] : n \in 0..MaxAnswers } }
    \cup
    { [op |-> "submitQuiz", videoId |-> VideoId, answers |-> LongSubmission(n, k)] :
      n \in (MaxAnswers + 1)..LongAnswers, k \in 0..LongAnswers }
    \cup
    { [op |-> "submitQuiz", videoId |-> MissingId, answers |-> as] :
      as \in UNION { [1..n -> Answers] : n \in 0..1 } }

\* --------------------------------------------------- quiz specification
InitQuiz ==
    /\ transcriptData = [hasSegmentsArray |-> FALSE, segments |-> <<>>]
    /\ segResult = NoResult
    /\ video \in {NoVideo} \cup { [exists |-> TRUE, questions |-> p] : p \in Pools }
    /\ request = NoRequest
    /\ response = NoResponse
    /\ clock = 0
    /\ generation = NoGeneration
    /\ tasks = NoTasks
    /\ quizLog = <<>>

GenerateQuiz ==
    \E req \in QuizRequests :
        /\ request = NoRequest
        /\ request' = req
        /\ response' \in generateQuiz(req, clock)
        /\ UNCHANGED <<transcriptData, segResult, video, clock, generation, tasks, quizLog>>

SubmitQuiz ==
    \E submission \in Submissions :
        /\ request = NoRequest
        /\ request' = submission
        /\ response' = submitQuiz(submission)
        /\ UNCHANGED <<transcriptData, segResult, video, clock, generation, tasks, quizLog>>

Tick ==
    /\ clock < MaxClock
    /\ clock' = clock + 1
    /\ UNCHANGED <<transcriptData, segResult, video, request, response, generation, tasks, quizLog>>

\* the response has been sent; the server is ready for the next request
Reply ==
    /\ request # NoRequest
    /\ request' = NoRequest
    /\ response' = NoResponse
    /\ UNCHANGED <<transcriptData, segResult, video, clock, generation, tasks, quizLog>>

NextQuiz == GenerateQuiz \/ SubmitQuiz \/ Reply \/ Tick

SpecQuiz == InitQuiz /\ [][NextQuiz]_vars

\* ------------------------------------------- quiz identifiers issued
MaxQuizCalls == 2

\* requests that leave totalQuestions out
QuizIdRequests == { req \in QuizRequests : ~req.hasTotal }

\* generateQuiz, with the quizId of every successful response recorded in the
\* order the responses were produced
GenerateQuizLogged ==
    \E req \in QuizIdRequests :
        /\ request = NoRequest
        /\ Len(quizLog) < MaxQuizCalls
        /\ request' = req
        /\ response' \in generateQuiz(req, clock)
        /\ quizLog' = IF response'.ok THEN Append(quizLog, response'.quizId) ELSE quizLog
        /\ UNCHANGED <<transcriptData, segResult, video, clock, generation, tasks>>

NextQuizId == GenerateQuizLogged \/ Reply \/ Tick

SpecQuizId == InitQuiz /\ [][NextQuizId]_vars

\* ---------------------------------------------------- question generation
questionsPerSegment == 3

\* what callLocalLLM gives for one segment: it throws (kind "error": the
\* endpoint is unreachable, times out or answers without a response field) or
\* returns a text.  A text is described by what parseQuestions finds in it:
\* whether it holds a JSON object, whether that object has a questions array,
\* and the raw entries of the array.  In a raw entry a missing or empty
\* question is <<>>, missing options are <<>>, a missing correct_answer is 0
\* and a missing explanation is "".
LLMError == [kind |-> "error", hasJson |-> FALSE, hasQuestionsArray |-> FALSE, questions |-> <<>>]
LLMText(hasJson, hasQuestionsArray, questions) ==
    [kind |-> "text", hasJson |-> hasJson, hasQuestionsArray |-> hasQuestionsArray,
     questions |-> questions]

RawQuestion(question, options, correct_answer, explanation) ==
    [question |-> question, options |-> options,
     correct_answer |-> correct_answer, explanation |-> explanation]

RECURSIVE filterValid(_)
\* .filter(q => q.question && q.options.length === 4)
filterValid(questions) ==
    IF questions = <<>> THEN <<>>
    ELSE IF Head(questions).question # <<>> /\ Len(Head(questions).options) = 4
         THEN <<Head(questions)>> \o filterValid(Tail(questions))
         ELSE filterValid(Tail(questions))

\* parseQuestions: [] when the text holds no usable JSON
parseQuestions(llmResponse, segmentIndex) ==
    IF ~llmResponse.hasJson \/ ~llmResponse.hasQuestionsArray
    THEN <<>>
    ELSE filterValid(
           [i \in 1..Len(llmResponse.questions) |->
              [question |-> llmResponse.questions[i].question,
               options |-> llmResponse.questions[i].options,
               correctAnswer |-> IF llmResponse.questions[i].correct_answer # 0
                                 THEN llmResponse.questions[i].correct_answer ELSE 0,
               explanation |-> llmResponse.questions[i].explanation,
               segmentIndex |-> segmentIndex]])

\* generateMockQuestions
generateMockQuestions(segment) ==
    SubSeq(
      << [question |-> <<"What is the main topic discussed in segment ",
                         segment.segmentIndex + 1, "?">>,
          options |-> <<"Technical implementation details",
                        "General overview and introduction",
                        "Practical applications and examples",
                        "Summary and conclusions">>,
          correctAnswer |-> 1,
          explanation |-> "This question tests understanding of the segment's primary focus.",
          segmentIndex |-> segment.segmentIndex],
         [question |-> <<"Which concept is emphasized in this part of the content?">>,
          options |-> <<"Historical background", "Current methodologies",
                        "Future predictions", "Key principles and fundamentals">>,
          correctAnswer |-> 3,
          explanation |-> "The segment focuses on explaining fundamental concepts.",
          segmentIndex |-> segment.segmentIndex],
         [question |-> <<"What type of information is provided in this segment?">>,
          options |-> <<"Statistical data only", "Theoretical concepts with examples",
                        "Personal opinions", "Marketing content">>,
          correctAnswer |-> 1,
          explanation |-> "The content combines theory with practical examples for better understanding.",
          segmentIndex |-> segment.segmentIndex] >>,
      1, questionsPerSegment)

\* mutant of generateQuestionsForSegment: no fallback when nothing was parsed
generateQuestionsForSegmentNoFallback(segment, llm) ==
    IF llm.kind = "error"
    THEN generateMockQuestions(segment)
    ELSE parseQuestions(llm, segment.segmentIndex)

\* generateQuestionsForSegment: the parsed questions, or the mock ones when the
\* call throws or nothing valid was parsed
generateQuestionsForSegment(segment, llm) ==
    IF llm.kind = "error"
    THEN generateMockQuestions(segment)
    ELSE LET questions == parseQuestions(llm, segment.segmentIndex)
         IN  IF Len(questions) > 0 THEN questions
             ELSE generateMockQuestions(segment)

RECURSIVE generateQuestions(_, _)
\* generateQuestions: llm[i] is what the language model does for segments[i]
generateQuestions(segments, llm) ==
    IF segments = <<>> THEN <<>>
    ELSE generateQuestionsForSegment(Head(segments), Head(llm))
           \o generateQuestions(Tail(segments), Tail(llm))

\* ------------------------------------------- inputs of the generation
MaxGenSegments == 2

FourOptions == <<"A", "B", "C", "D">>

ValidRaw == RawQuestion(<<"Q">>, FourOptions, 2, "why")

LLMOutcomes ==
    { LLMError,
      LLMText(FALSE, FALSE, <<>>),
      LLMText(TRUE, FALSE, <<>>),
      LLMText(TRUE, TRUE, <<ValidRaw>>),
      LLMText(TRUE, TRUE, <<RawQuestion(<<"Q0">>, FourOptions, 0, ""), ValidRaw>>),
      LLMText(TRUE, TRUE, <<RawQuestion(<<"Q7">>, FourOptions, 7, "")>>),
      LLMText(TRUE, TRUE, <<RawQuestion(<<>>, FourOptions, 1, ""),
                            RawQuestion(<<"Q3">>, <<"A", "B", "C">>, 1, ""),
                            RawQuestion(<<"Qn">>, <<>>, 1, "")>>) }

\* a transcript segment as the merger leaves it
StoredSegment(i) ==
    [startTime |-> 10 * i, endTime |-> 10 * i + 10, text |-> ShortWord, segmentIndex |-> i]

\* all segments of a video, or the one segment a regeneration asks for
GenSegmentLists ==
    { [i \in 1..n |-> StoredSegment(i - 1)] : n \in 0..MaxGenSegments }
    \cup { <<StoredSegment(i)>> : i \in 0..(MaxGenSegments - 1) }

\* -------------------------------------------- generation specification
InitGenerate ==
    /\ transcriptData = [hasSegmentsArray |-> FALSE, segments |-> <<>>]
    /\ segResult = NoResult
    /\ video = NoVideo
    /\ request = NoRequest
    /\ response = NoResponse
    /\ clock = 0
    /\ generation \in
          { [done |-> FALSE, segments |-> segs, llm |-> llm, questions |-> <<>>] :
            segs \in GenSegmentLists, llm \in [1..MaxGenSegments -> LLMOutcomes] }
    /\ Len(generation.llm) >= Len(generation.segments)
    /\ \A i \in (Len(generation.segments) + 1)..Len(generation.llm) :
          generation.llm[i] = LLMError
    /\ tasks = NoTasks
    /\ quizLog = <<>>

GenerateQuestions ==
    /\ ~generation.done
    /\ generation' = [generation EXCEPT
           !.done = TRUE,
           !.questions = generateQuestions(generation.segments, generation.llm)]
    /\ UNCHANGED <<transcriptData, segResult, video, request, response, clock,
                   tasks, quizLog>>

NextGenerate == GenerateQuestions

SpecGenerate == InitGenerate /\ [][NextGenerate]_vars

\* ------------------------------------------------ the stored Video record
\* an optional field is <<>> when undefined and <<v>> when it holds v
Undefined == <<>>
Defined(v) == <<v>>

\* new Video({...}) with the schema defaults
NewVideo ==
    [exists |-> TRUE,
     transcriptionStatus |-> "pending",
     questionGenerationStatus |-> "pending",
     fullTranscript |-> Undefined,
     segments |-> <<>>,
     questions |-> <<>>,
     transcriptionError |-> Undefined,
     questionGenerationError |-> Undefined,
     processedAt |-> Undefined]

\* a document in memory: the copy findById returned, with the paths assigned
\* since it was loaded or last saved
Document(stored) == [doc |-> stored, modified |-> {}]

\* does assigning new to path f over old mark the path modified?  A scalar is
\* modified when its value changes; an array of subdocuments is modified
\* unless an empty array replaces an empty array.
Changed(f, old, new) ==
    IF f \in {"segments", "questions"}
    THEN ~(old = <<>> /\ new = <<>>)
    ELSE old # new

\* video.f = changes[f], for every f of changes
Assign(d, changes) ==
    [d EXCEPT
       !.doc = [f \in DOMAIN d.doc |->
                  IF f \in DOMAIN changes THEN changes[f] ELSE d.doc[f]],
       !.modified = d.modified \cup
                    { f \in DOMAIN changes : Changed(f, d.doc[f], changes[f]) }]

\* the schema validators that save() runs over the modified paths
Valid(d) ==
    /\ "segments" \in d.modified =>
          \A k \in 1..Len(d.doc.segments) : d.doc.segments[k].text # EmptyText
    /\ "questions" \in d.modified =>
          \A k \in 1..Len(d.doc.questions) :
             /\ d.doc.questions[k].question # <<>>
             /\ d.doc.questions[k].correctAnswer >= 0
             /\ d.doc.questions[k].correctAnswer <= 3

\* mutant of Save: the whole document replaces the stored record
SaveWhole(stored, d) == d.doc

\* video.save(): the modified paths, and only those, are written to the store
Save(stored, d) ==
    [f \in DOMAIN stored |-> IF f \in d.modified THEN d.doc[f] ELSE stored[f]]

\* ----------------------------------------------------------- transcription
RECURSIVE JoinTexts(_)
\* segments.map(segment => segment.text).join(' ')
JoinTexts(segments) ==
    IF segments = <<>> THEN EmptyText
    ELSE IF Len(segments) = 1 THEN Head(segments).text
    ELSE Head(segments).text \o JoinTexts(Tail(segments))

\* what whisper did: it failed, or it left a transcript file holding data
WhisperFailed(message) ==
    [whisperOk |-> FALSE, whisperError |-> message,
     data |-> [hasSegmentsArray |-> FALSE, segments |-> <<>>]]
WhisperData(data) == [whisperOk |-> TRUE, whisperError |-> "", data |-> data]

\* mutant of transcribeVideo: a transcript without a segments array is read as
\* an empty transcript
transcribeVideoLenient(whisper) ==
    IF ~whisper.whisperOk
    THEN [ok |-> FALSE, error |-> <<"Transcription failed: ", whisper.whisperError>>,
          fullTranscript |-> Undefined, segments |-> <<>>]
    ELSE LET r == segmentTranscript([whisper.data EXCEPT !.hasSegmentsArray = TRUE])
         IN  [ok |-> TRUE, error |-> <<>>,
              fullTranscript |-> Defined(JoinTexts(r.segments)),
              segments |-> r.segments]

\* transcribeVideo: the result, or the error it throws
transcribeVideo(whisper) ==
    IF ~whisper.whisperOk
    THEN [ok |-> FALSE, error |-> <<"Transcription failed: ", whisper.whisperError>>,
          fullTranscript |-> Undefined, segments |-> <<>>]
    ELSE LET r == segmentTranscript(whisper.data)
         IN  IF ~r.ok
             THEN [ok |-> FALSE, error |-> <<"Transcription failed: ", r.error>>,
                   fullTranscript |-> Undefined, segments |-> <<>>]
             ELSE [ok |-> TRUE, error |-> <<>>,
                   fullTranscript |-> Defined(JoinTexts(r.segments)),
                   segments |-> r.segments]

\* ------------------------------------------------------ background runs
MaxRuns == 2

\* a background run: its kind, the await it has reached, its document, what
\* whisper gave to its transcribeVideo call, and the status values its saves
\* have handed to the store so far, oldest first
NewRun(kind) ==
    [kind |-> kind, pc |-> "start", doc |-> NoVideo, modified |-> {}, log |-> <<>>,
     whisper |-> Undefined, segmentIndex |-> Undefined]

\* the status values a successful save of d hands to the store, for the status
\* paths assigned since the previous save; a failure comes with the error
\* message d holds for the phase
StatusWrite(phase, status, error) ==
    [phase |-> phase, status |-> status,
     error |-> IF status = "failed" THEN error ELSE Undefined]

StatusWrites(d, assigned) ==
    (IF "transcriptionStatus" \in assigned
     THEN <<StatusWrite("transcription", d.doc.transcriptionStatus,
                        d.doc.transcriptionError)>>
     ELSE <<>>)
    \o (IF "questionGenerationStatus" \in assigned
        THEN <<StatusWrite("questions", d.doc.questionGenerationStatus,
                           d.doc.questionGenerationError)>>
        ELSE <<>>)

\* at most MaxRuns runs are started
CanStart == Len(tasks) < MaxRuns

StartRun(run) == Append(tasks, run)

\* run i after its assignments d were saved and it moved on to pc; a run that
\* is done has dropped its document
Saved(i, d, assigned, pc) ==
    [tasks EXCEPT ![i] = [tasks[i] EXCEPT
        !.doc = IF pc = "done" THEN NoVideo ELSE d.doc,
        !.modified = {}, !.pc = pc,
        !.log = tasks[i].log \o StatusWrites(d, assigned)]]

\* run i after save() rejected its assignments d and it moved on to pc
Rejected(i, d, pc) ==
    [tasks EXCEPT ![i] = [tasks[i] EXCEPT
        !.doc = IF pc = "done" THEN NoVideo ELSE d.doc,
        !.modified = IF pc = "done" THEN {} ELSE d.modified,
        !.pc = pc]]

\* the runs ts, with run i holding what whisper gave it
Transcribed(ts, i, whisper) == [ts EXCEPT ![i].whisper = Defined(whisper)]

RunDocument(i) == [doc |-> tasks[i].doc, modified |-> tasks[i].modified]

\* ------------------------------------------------ inputs of the pipeline
WhisperOutcomes ==
    { WhisperFailed("Whisper process timeout"),
      WhisperData([hasSegmentsArray |-> FALSE, segments |-> <<>>]),
      WhisperData([hasSegmentsArray |-> TRUE, segments |-> <<Frag(0, 10, ShortWord)>>]) }

PipelineLLMOutcomes ==
    { LLMText(TRUE, TRUE, <<ValidRaw>>),
      LLMText(TRUE, TRUE, <<RawQuestion(<<"Q7">>, FourOptions, 7, "")>>) }

\* ------------------------------------------------------ processVideoAsync
\* const video = await Video.findById(videoId)
ProcessFind(i) ==
    /\ tasks[i].kind = "process"
    /\ tasks[i].pc = "start"
    /\ tasks' = [tasks EXCEPT ![i] =
                   IF findById(VideoId).exists
                   THEN [tasks[i] EXCEPT !.doc = findById(VideoId), !.pc = "loaded"]
                   ELSE [tasks[i] EXCEPT !.pc = "done"]]
    /\ UNCHANGED <<transcriptData, segResult, video, request, response, clock,
                   generation, quizLog>>

\* video.transcriptionStatus = 'processing'; await video.save()
ProcessStartTranscription(i) ==
    /\ tasks[i].kind = "process"
    /\ tasks[i].pc = "loaded"
    /\ LET d == Assign(RunDocument(i), [transcriptionStatus |-> "processing"])
       IN  IF Valid(d)
           THEN video' = Save(video, d) /\ tasks' = Saved(i, d, {"transcriptionStatus"}, "transcribing")
           ELSE video' = video /\ tasks' = Rejected(i, d, "done")
    /\ UNCHANGED <<transcriptData, segResult, request, response, clock,
                   generation, quizLog>>

\* the inner try/catch around transcribeVideo; afterFailure is where the run
\* goes once the catch has saved the failure
ProcessTranscribeThen(i, afterFailure) ==
    /\ tasks[i].kind = "process"
    /\ tasks[i].pc = "transcribing"
    /\ \E whisper \in WhisperOutcomes :
        LET r == transcribeVideo(whisper)
            completed == Assign(RunDocument(i),
                           [fullTranscript |-> r.fullTranscript,
                            segments |-> r.segments,
                            transcriptionStatus |-> "completed"])
            thrown == IF r.ok THEN <<"Validation failed">> ELSE r.error
            failed == Assign(IF r.ok THEN completed ELSE RunDocument(i),
                             [transcriptionStatus |-> "failed",
                              transcriptionError |-> Defined(thrown)])
        IN  IF r.ok /\ Valid(completed)
            THEN /\ video' = Save(video, completed)
                 /\ tasks' = Transcribed(
                       Saved(i, completed, {"transcriptionStatus"}, "transcribed"),
                       i, whisper)
            ELSE IF Valid(failed)
            THEN /\ video' = Save(video, failed)
                 /\ tasks' = Transcribed(
                       Saved(i, failed, {"transcriptionStatus"}, afterFailure),
                       i, whisper)
            ELSE /\ video' = video
                 /\ tasks' = Transcribed(Rejected(i, failed, "done"), i, whisper)
    /\ UNCHANGED <<transcriptData, segResult, request, response, clock,
                   generation, quizLog>>

\* mutant of ProcessTranscribe: the catch does not return
ProcessTranscribeNoReturn(i) == ProcessTranscribeThen(i, "transcribed")

\* mutant of ProcessTranscribe: the catch starts the transcription again
ProcessTranscribeRetry(i) == ProcessTranscribeThen(i, "loaded")

\* the catch saves the failure and returns
ProcessTranscribe(i) == ProcessTranscribeThen(i, "done")

\* mutant of ProcessStartGeneration: generation starts without the save
ProcessStartGenerationUnsaved(i) ==
    /\ tasks[i].kind = "process"
    /\ tasks[i].pc = "transcribed"
    /\ video' = video
    /\ tasks' = [tasks EXCEPT ![i].pc = "generating"]
    /\ UNCHANGED <<transcriptData, segResult, request, response, clock,
                   generation, quizLog>>

\* video.questionGenerationStatus = 'processing'; await video.save()
ProcessStartGeneration(i) ==
    /\ tasks[i].kind = "process"
    /\ tasks[i].pc = "transcribed"
    /\ LET d == Assign(RunDocument(i), [questionGenerationStatus |-> "processing"])
       IN  IF Valid(d)
           THEN video' = Save(video, d) /\ tasks' = Saved(i, d, {"questionGenerationStatus"}, "generating")
           ELSE video' = video /\ tasks' = Rejected(i, d, "done")
    /\ UNCHANGED <<transcriptData, segResult, request, response, clock,
                   generation, quizLog>>

\* the inner try/catch around generateQuestions
ProcessGenerate(i) ==
    /\ tasks[i].kind = "process"
    /\ tasks[i].pc = "generating"
    /\ \E llm \in [1..Len(tasks[i].doc.segments) -> PipelineLLMOutcomes] :
        LET questions == generateQuestions(tasks[i].doc.segments, llm)
            completed == Assign(RunDocument(i),
                           [questions |-> questions,
                            questionGenerationStatus |-> "completed",
                            processedAt |-> Defined(clock)])
            failed == Assign(completed,
                             [questionGenerationStatus |-> "failed",
                              questionGenerationError |-> Defined(<<"Validation failed">>)])
        IN  IF Valid(completed)
            THEN video' = Save(video, completed) /\ tasks' = Saved(i, completed, {"questionGenerationStatus"}, "done")
            ELSE IF Valid(failed)
            THEN video' = Save(video, failed) /\ tasks' = Saved(i, failed, {"questionGenerationStatus"}, "done")
            ELSE video' = video /\ tasks' = Rejected(i, failed, "done")
    /\ UNCHANGED <<transcriptData, segResult, request, response, clock,
                   generation, quizLog>>

\* -------------------------------------------------------- VideoController
\* uploadVideo: one video is uploaded, and its processing starts
UploadVideo ==
    /\ video = NoVideo
    /\ CanStart
    /\ video' = NewVideo
    /\ tasks' = StartRun(NewRun("process"))
    /\ UNCHANGED <<transcriptData, segResult, request, response, clock,
                   generation, quizLog>>

\* reprocessVideo: the reset and the start of a new run ('Video not found'
\* changes nothing)
ReprocessVideo ==
    \E id \in {VideoId, MissingId} :
        /\ findById(id).exists
        /\ CanStart
        /\ LET d == Assign(Document(findById(id)),
                      [transcriptionStatus |-> "pending",
                       questionGenerationStatus |-> "pending",
                       fullTranscript |-> Undefined,
                       segments |-> <<>>,
                       questions |-> <<>>,
                       transcriptionError |-> Undefined,
                       questionGenerationError |-> Undefined,
                       processedAt |-> Undefined])
           IN  /\ Valid(d)
               /\ video' = Save(video, d)
               /\ tasks' = StartRun(NewRun("process"))
        /\ UNCHANGED <<transcriptData, segResult, request, response, clock,
                       generation, quizLog>>

\* ------------------------------------------------ TranscriptionController
\* retranscribeVideo: the reset and the start of retranscribeAsync ('Video
\* not found' changes nothing)
RetranscribeVideo ==
    \E id \in {VideoId, MissingId} :
        /\ findById(id).exists
        /\ CanStart
        /\ LET d == Assign(Document(findById(id)),
                      [transcriptionStatus |-> "processing",
                       fullTranscript |-> Undefined,
                       segments |-> <<>>,
                       transcriptionError |-> Undefined])
           IN  /\ Valid(d)
               /\ video' = Save(video, d)
               /\ tasks' = StartRun([NewRun("retranscribe") EXCEPT !.log = StatusWrites(d, {"transcriptionStatus"})])
        /\ UNCHANGED <<transcriptData, segResult, request, response, clock,
                       generation, quizLog>>

\* retranscribeAsync: const video = await Video.findById(videoId)
RetranscribeFind(i) ==
    /\ tasks[i].kind = "retranscribe"
    /\ tasks[i].pc = "start"
    /\ tasks' = [tasks EXCEPT ![i] =
                   IF findById(VideoId).exists
                   THEN [tasks[i] EXCEPT !.doc = findById(VideoId), !.pc = "transcribing"]
                   ELSE [tasks[i] EXCEPT !.pc = "done"]]
    /\ UNCHANGED <<transcriptData, segResult, video, request, response, clock,
                   generation, quizLog>>

\* retranscribeAsync: transcribeVideo and the save, or the catch, which loads
\* the record again and marks it failed
RetranscribeTranscribe(i) ==
    /\ tasks[i].kind = "retranscribe"
    /\ tasks[i].pc = "transcribing"
    /\ \E whisper \in WhisperOutcomes :
        LET r == transcribeVideo(whisper)
            completed == Assign(RunDocument(i),
                           [fullTranscript |-> r.fullTranscript,
                            segments |-> r.segments,
                            transcriptionStatus |-> "completed"])
            thrown == IF r.ok THEN <<"Validation failed">> ELSE r.error
            failed == Assign(Document(findById(VideoId)),
                             [transcriptionStatus |-> "failed",
                              transcriptionError |-> Defined(thrown)])
        IN  IF r.ok /\ Valid(completed)
            THEN video' = Save(video, completed) /\ tasks' = Transcribed(Saved(i, completed, {"transcriptionStatus"}, "done"), i, whisper)
            ELSE IF Valid(failed)
            THEN video' = Save(video, failed) /\ tasks' = Transcribed(Saved(i, failed, {"transcriptionStatus"}, "done"), i, whisper)
            ELSE video' = video /\ tasks' = Transcribed(Rejected(i, failed, "done"), i, whisper)
    /\ UNCHANGED <<transcriptData, segResult, request, response, clock,
                   generation, quizLog>>

\* ---------------------------------------------------- QuestionController
\* a regenerate request: segmentIndex is Undefined or Defined(index)
RegenerateRequest(id, segmentIndex) ==
    [op |-> "regenerateQuestions", videoId |-> id, segmentIndex |-> segmentIndex]

RegenerateRequests ==
    { RegenerateRequest(id, Undefined) : id \in {VideoId, MissingId} }
    \cup { RegenerateRequest(VideoId, Defined(k)) : k \in {0, MaxGenSegments} }

\* mutant of filterOutSegment: no stored question is kept
filterOutSegmentKeepNone(questions, segmentIndex) == <<>>

RECURSIVE filterOutSegment(_, _)
\* video.questions.filter(q => q.segmentIndex !== options.segmentIndex)
filterOutSegment(questions, segmentIndex) ==
    IF questions = <<>> THEN <<>>
    ELSE IF Head(questions).segmentIndex # segmentIndex
         THEN <<Head(questions)>> \o filterOutSegment(Tail(questions), segmentIndex)
         ELSE filterOutSegment(Tail(questions), segmentIndex)

\* the catch of regenerateQuestions: the record is loaded again, marked failed
\* and saved
regenerateCatch(stored, message) ==
    IF ~stored.exists THEN stored
    ELSE LET d == Assign(Document(stored),
                    [questionGenerationStatus |-> "failed",
                     questionGenerationError |-> Defined(<<message>>)])
         IN  IF Valid(d) THEN Save(stored, d) ELSE stored

\* regenerateQuestions up to the call of the generator
RegenerateQuestions ==
    \E req \in RegenerateRequests :
        LET v == findById(req.videoId)
            d == Assign(Document(v), [questionGenerationStatus |-> "processing"])
            segmentsToProcess ==
                IF req.segmentIndex = Undefined THEN v.segments
                ELSE filterSegment(v.segments, req.segmentIndex[1])
        IN  /\ v.exists
            /\ IF Len(v.segments) = 0
               THEN /\ video' = regenerateCatch(video, "No transcript segments available")
                    /\ UNCHANGED tasks
               ELSE IF Len(segmentsToProcess) = 0
               THEN /\ video' = regenerateCatch(Save(video, d), "Segment not found")
                    /\ UNCHANGED tasks
               ELSE /\ CanStart
                    /\ video' = Save(video, d)
                    /\ tasks' = StartRun([NewRun("regenerate") EXCEPT
                             !.pc = "generating", !.doc = d.doc,
                             !.log = StatusWrites(d, {"questionGenerationStatus"}),
                             !.segmentIndex = req.segmentIndex])
        /\ UNCHANGED <<transcriptData, segResult, request, response, clock,
                       generation, quizLog>>

\* regenerateQuestions from the generator's answer to the last save
RegenerateGenerate(i) ==
    /\ tasks[i].kind = "regenerate"
    /\ tasks[i].pc = "generating"
    /\ LET segmentIndex == tasks[i].segmentIndex
           segmentsToProcess ==
               IF segmentIndex = Undefined THEN tasks[i].doc.segments
               ELSE filterSegment(tasks[i].doc.segments, segmentIndex[1])
       IN  \E llm \in [1..Len(segmentsToProcess) -> PipelineLLMOutcomes] :
             LET newQuestions == generateQuestions(segmentsToProcess, llm)
                 completed == Assign(RunDocument(i),
                     [questions |->
                        IF segmentIndex = Undefined THEN newQuestions
                        ELSE filterOutSegment(tasks[i].doc.questions, segmentIndex[1])
                               \o newQuestions,
                      questionGenerationStatus |-> "completed",
                      questionGenerationError |-> Undefined])
             IN  IF Valid(completed)
                 THEN /\ video' = Save(video, completed)
                      /\ tasks' = Saved(i, completed, {"questionGenerationStatus"}, "done")
                 ELSE /\ video' = regenerateCatch(video, "Validation failed")
                      /\ tasks' = Rejected(i, completed, "done")
    /\ UNCHANGED <<transcriptData, segResult, request, response, clock,
                   generation, quizLog>>

\* the body of an updateQuestion request: a field left out is Undefined
QuestionUpdate(question, options, correctAnswer, explanation) ==
    [question |-> question, options |-> options,
     correctAnswer |-> correctAnswer, explanation |-> explanation]

QuestionUpdates ==
    { QuestionUpdate(Undefined, Undefined, Undefined, Undefined),
      QuestionUpdate(Undefined, Defined(<<"A", "B">>), Undefined, Undefined),
      QuestionUpdate(Undefined, Undefined, Defined(7), Undefined),
      QuestionUpdate(Defined(<<"edited">>), Defined(FourOptions), Defined(0),
                     Defined("edited")) }

QuestionIndices == {-1, 0, 1, 3 * MaxGenSegments}

\* the assignments of updateQuestion to the question at offset questionIndex
updateFields(question, updatedQuestion) ==
    [question |-> IF updatedQuestion.question # Undefined
                  THEN updatedQuestion.question[1] ELSE question.question,
     options |-> IF updatedQuestion.options # Undefined
                 THEN updatedQuestion.options[1] ELSE question.options,
     correctAnswer |-> IF updatedQuestion.correctAnswer # Undefined
                       THEN updatedQuestion.correctAnswer[1] ELSE question.correctAnswer,
     explanation |-> IF updatedQuestion.explanation # Undefined
                     THEN updatedQuestion.explanation[1] ELSE question.explanation,
     segmentIndex |-> question.segmentIndex]

UpdateError(message) ==
    ErrorResponse("updateQuestion", ThrownError("Failed to update question: ", message))

\* updateQuestion
UpdateQuestion ==
    \E id \in {VideoId, MissingId}, questionIndex \in QuestionIndices,
       updatedQuestion \in QuestionUpdates :
        LET v == findById(id)
            updated == [v.questions EXCEPT
                          ![questionIndex + 1] = updateFields(@, updatedQuestion)]
            d == [doc |-> [v EXCEPT !.questions = updated],
                  modified |-> IF updated # v.questions THEN {"questions"} ELSE {}]
        IN  /\ request = NoRequest
            /\ request' = [op |-> "updateQuestion", videoId |-> id,
                           questionIndex |-> questionIndex,
                           updatedQuestion |-> updatedQuestion]
            /\ IF ~v.exists
               THEN response' = UpdateError("Video not found") /\ video' = video
               ELSE IF questionIndex >= Len(v.questions)
               THEN response' = UpdateError("Question not found") /\ video' = video
               ELSE IF questionIndex < 0
               THEN \* video.questions[questionIndex] is undefined
                    /\ video' = video
                    /\ response' =
                         IF updatedQuestion = QuestionUpdate(Undefined, Undefined,
                                                             Undefined, Undefined)
                         THEN [op |-> "updateQuestion", ok |-> TRUE, question |-> Undefined]
                         ELSE UpdateError("Cannot set properties of undefined")
               ELSE IF ~Valid(d)
               THEN response' = UpdateError("Validation failed") /\ video' = video
               ELSE /\ video' = Save(video, d)
                    /\ response' = [op |-> "updateQuestion", ok |-> TRUE,
                                    question |-> Defined(updated[questionIndex + 1])]
            /\ UNCHANGED <<transcriptData, segResult, clock, generation, tasks, quizLog>>

\* questions.splice(questionIndex, 1)
splice(questions, questionIndex) ==
    LET start == IF questionIndex < 0
                 THEN Max(Len(questions) + questionIndex, 0)
                 ELSE Min(questionIndex, Len(questions))
    IN  SubSeq(questions, 1, start) \o SubSeq(questions, start + 2, Len(questions))

DeleteError(message) ==
    ErrorResponse("deleteQuestion", ThrownError("Failed to delete question: ", message))

\* deleteQuestion
DeleteQuestion ==
    \E id \in {VideoId, MissingId}, questionIndex \in QuestionIndices :
        LET v == findById(id)
            remaining == splice(v.questions, questionIndex)
            d == [doc |-> [v EXCEPT !.questions = remaining],
                  modified |-> IF remaining # v.questions THEN {"questions"} ELSE {}]
        IN  /\ request = NoRequest
            /\ request' = [op |-> "deleteQuestion", videoId |-> id,
                           questionIndex |-> questionIndex]
            /\ IF ~v.exists
               THEN response' = DeleteError("Video not found") /\ video' = video
               ELSE IF questionIndex >= Len(v.questions)
               THEN response' = DeleteError("Question not found") /\ video' = video
               ELSE IF ~Valid(d)
               THEN response' = DeleteError("Validation failed") /\ video' = video
               ELSE /\ video' = Save(video, d)
                    /\ response' = [op |-> "deleteQuestion", ok |-> TRUE]
            /\ UNCHANGED <<transcriptData, segResult, clock, generation, tasks, quizLog>>

\* ------------------------------------------- question editing specification
\* the record a pipeline run that nothing interferes with leaves
ProcessedVideo(whisper, llm) ==
    [NewVideo EXCEPT
       !.transcriptionStatus = "completed",
       !.questionGenerationStatus = "completed",
       !.fullTranscript = transcribeVideo(whisper).fullTranscript,
       !.segments = transcribeVideo(whisper).segments,
       !.questions = generateQuestions(transcribeVideo(whisper).segments, llm),
       !.processedAt = Defined(0)]

TwoSegmentTranscript ==
    WhisperData([hasSegmentsArray |-> TRUE,
                 segments |-> <<Frag(0, 310, AtMin), Frag(310, 320, AtMin)>>])

ProcessedVideos ==
    { ProcessedVideo(whisper, llm) :
        whisper \in { w \in WhisperOutcomes \cup {TwoSegmentTranscript} :
                        transcribeVideo(w).ok },
        llm \in [1..MaxGenSegments -> {LLMError, LLMText(TRUE, TRUE, <<ValidRaw>>)}] }

InitQuestions ==
    /\ transcriptData = [hasSegmentsArray |-> FALSE, segments |-> <<>>]
    /\ segResult = NoResult
    /\ video \in ProcessedVideos
    /\ request = NoRequest
    /\ response = NoResponse
    /\ clock = 0
    /\ generation = NoGeneration
    /\ tasks = NoTasks
    /\ quizLog = <<>>

NextQuestions == UpdateQuestion \/ DeleteQuestion \/ Reply

SpecQuestions == InitQuestions /\ [][NextQuestions]_vars

\* ------------------------------------------------- system specification
Init ==
    /\ transcriptData = [hasSegmentsArray |-> FALSE, segments |-> <<>>]
    /\ segResult = NoResult
    /\ video = NoVideo
    /\ request = NoRequest
    /\ response = NoResponse
    /\ clock = 0
    /\ generation = NoGeneration
    /\ tasks = NoTasks
    /\ quizLog = <<>>

ProcessVideoAsync ==
    \E i \in 1..Len(tasks) :
        \/ ProcessFind(i)
        \/ ProcessStartTranscription(i)
        \/ ProcessTranscribe(i)
        \/ ProcessStartGeneration(i)
        \/ ProcessGenerate(i)

RetranscribeAsync ==
    \E i \in 1..Len(tasks) : RetranscribeFind(i) \/ RetranscribeTranscribe(i)

RegenerateAsync ==
    \E i \in 1..Len(tasks) : RegenerateGenerate(i)

\* ------------------------------------------- regeneration specification
\* regenerate requests on a processed video
NextRegenerate == RegenerateQuestions \/ RegenerateAsync

SpecRegenerate == InitQuestions /\ [][NextRegenerate]_vars

Next ==
    \/ UploadVideo
    \/ ReprocessVideo
    \/ ProcessVideoAsync
    \/ RetranscribeVideo
    \/ RetranscribeAsync
    \/ RegenerateQuestions
    \/ RegenerateAsync

Spec == Init /\ [][Next]_vars

\* ------------------------------------------------ claims on the merger
Frags == transcriptData.segments
Coarse == segResult.coarse
Out == segResult.segments
Merged == segResult.ok

RECURSIVE SumWords(_, _)
\* total word count of the first n segments of segs
SumWords(segs, n) ==
    IF n = 0 THEN 0 ELSE SumWords(segs, n - 1) + Len(segs[n].text)

\* the output segment that holds the text of coarse segment i
OutOf(i) ==
    CHOOSE k \in 1..Len(Out) :
        /\ SumWords(Out, k - 1) <= SumWords(Coarse, i - 1)
        /\ SumWords(Coarse, i - 1) < SumWords(Out, k)

\* the last coarse segment is short and the one before it is not
ShortLastAfterLong ==
    /\ Merged
    /\ Len(Coarse) >= 2
    /\ Len(Coarse[Len(Coarse)].text) < 50
    /\ Len(Coarse[Len(Coarse) - 1].text) >= 50

\* C1 as stated: a short last coarse segment that follows one of at least
\* 50 words is emitted as an output segment of its own.
C1_Original ==
    ShortLastAfterLong =>
        /\ Out[Len(Out)].text = Coarse[Len(Coarse)].text
        /\ Out[Len(Out)].startTime = Coarse[Len(Coarse)].startTime

\* C1 amended: a short last coarse segment that follows one of at least 50
\* words is merged backward: the last output segment starts where the
\* preceding coarse segment starts, ends where the last coarse segment ends
\* and holds both texts joined by one space; there are fewer output segments
\* than coarse segments.
C1_MergedBackward ==
    ShortLastAfterLong =>
        /\ Out[Len(Out)].startTime = Coarse[Len(Coarse) - 1].startTime
        /\ Out[Len(Out)].endTime = Coarse[Len(Coarse)].endTime
        /\ Out[Len(Out)].text =
              Coarse[Len(Coarse) - 1].text \o Coarse[Len(Coarse)].text
        /\ Len(Out) < Len(Coarse)

C1_Witness ==
    /\ ShortLastAfterLong
    /\ Len(Coarse) = 2
    /\ Len(Out) = 1

IndexedByPosition ==
    \A k \in 1..Len(Out) : Out[k].segmentIndex = k - 1

\* C3 as stated: for every fragment sequence the output segments are indexed
\* 0, 1, 2, ... by position and each has endTime >= startTime.
C3_Original ==
    Merged =>
        /\ IndexedByPosition
        /\ \A k \in 1..Len(Out) : Out[k].endTime >= Out[k].startTime

\* every fragment ends no earlier than it starts (an end of 0 counts as
\* missing) and the starts never decrease
TimeOrderedInput ==
    /\ \A i \in 1..Len(Frags) :
          Frags[i].end = 0 \/ Frags[i].end >= Frags[i].start
    /\ \A i \in 1..Len(Frags) : \A j \in i..Len(Frags) :
          Frags[i].start <= Frags[j].start

\* C3 amended: the output segments are always indexed 0, 1, 2, ... by
\* position; each has endTime >= startTime when every fragment ends no
\* earlier than it starts and the fragment starts never decrease.
C3_IndexedAndOrdered ==
    Merged =>
        /\ IndexedByPosition
        /\ TimeOrderedInput =>
              \A k \in 1..Len(Out) : Out[k].endTime >= Out[k].startTime

C3_Witness ==
    /\ Merged
    /\ TimeOrderedInput
    /\ Len(Frags) = 3
    /\ Len(Coarse) = 3
    /\ Len(Out) = 2

\* t is f without its leading and trailing blank tokens
IsTrimOf(t, f) ==
    \E i \in 1..Len(f) : \E j \in i..Len(f) :
        /\ f[i] # "" /\ f[j] # ""
        /\ \A k \in 1..(i - 1) : f[k] = ""
        /\ \A k \in (j + 1)..Len(f) : f[k] = ""
        /\ t = SubSeq(f, i, j)

SingleSmallFragment ==
    /\ Merged
    /\ Len(Frags) = 1
    /\ Frags[1].end - Frags[1].start < 300
    /\ Len(Frags[1].text) < 50

\* C10 as stated: one fragment with non-empty text under both thresholds
\* gives one segment with index 0, the fragment's times and its text.
C10_Original ==
    (SingleSmallFragment /\ Frags[1].text # EmptyText) =>
        /\ Len(Out) = 1
        /\ Out[1].segmentIndex = 0
        /\ Out[1].startTime = Frags[1].start
        /\ Out[1].endTime = Frags[1].end
        /\ Out[1].text = Frags[1].text

\* C10 amended: one fragment under both thresholds whose text is not all
\* whitespace gives one segment with index 0, the fragment's start, the
\* fragment's end (start + 1 when the end is 0 or missing) and the
\* fragment's text without its leading and trailing whitespace.
C10_SingleFragment ==
    (SingleSmallFragment /\ \E k \in 1..Len(Frags[1].text) : Frags[1].text[k] # "") =>
        /\ Len(Out) = 1
        /\ Out[1].segmentIndex = 0
        /\ Out[1].startTime = Frags[1].start
        /\ Out[1].endTime =
              (IF Frags[1].end = 0 THEN Frags[1].start + 1 ELSE Frags[1].end)
        /\ IsTrimOf(Out[1].text, Frags[1].text)

C10_Witness ==
    /\ SingleSmallFragment
    /\ Len(Out) = 1
    /\ Len(Frags[1].text) > Len(Out[1].text)
    /\ Len(Out[1].text) > 1

\* ---------------------------------------------- claims on quiz assembly
Pool == video.questions
QuizOk == request.op = "generateQuiz" /\ response.op = "generateQuiz" /\ response.ok
Quiz == response.questions

\* q is a stored question (with a questionIndex added)
FromPool(q) ==
    \E p \in 1..Len(Pool) :
        /\ Pool[p]._id = q._id
        /\ Pool[p].question = q.question
        /\ Pool[p].correctAnswer = q.correctAnswer
        /\ Pool[p].explanation = q.explanation
        /\ Pool[p].segmentIndex = q.segmentIndex

NoQuestionTwice ==
    \A i \in 1..Len(Quiz) : \A j \in 1..Len(Quiz) :
        i # j => Quiz[i]._id # Quiz[j]._id

ExactlyKFromPool ==
    /\ Len(Quiz) = Min(request.totalQuestions, Len(Pool))
    /\ NoQuestionTwice
    /\ \A i \in 1..Len(Quiz) : FromPool(Quiz[i])

\* C4 as stated: with totalQuestions = K >= 0 the quiz holds min(K, M)
\* pairwise distinct questions of the pool.
C4_Original ==
    (QuizOk /\ request.hasTotal) => ExactlyKFromPool

\* C4 amended: with totalQuestions = K >= 1 over a pool of M questions the
\* quiz holds exactly K pairwise distinct pool questions when K <= M and the
\* whole pool when K > M (K = 0 is treated as totalQuestions not given).
C4_TotalQuestions ==
    (QuizOk /\ request.hasTotal /\ request.totalQuestions >= 1) => ExactlyKFromPool

C4_Witness ==
    /\ QuizOk
    /\ request.hasTotal
    /\ request.totalQuestions = 2
    /\ Len(Pool) = 3
    /\ Len(Quiz) = 2
    /\ Quiz[1]._id = 3

CountIn(questions, segmentIndex) ==
    Cardinality({ i \in 1..Len(questions) : questions[i].segmentIndex = segmentIndex })

PoolSegments == { Pool[p].segmentIndex : p \in 1..Len(Pool) }

\* C5: in per-segment mode with questionsPerSegment = C over S distinct
\* segmentIndex values the quiz holds at most C * S questions, at most
\* min(C, pool questions of the segment) for every segmentIndex, and no pool
\* question twice.
C5_PerSegment ==
    (QuizOk /\ ~request.hasTotal) =>
        /\ Len(Quiz) <= request.questionsPerSegment * Cardinality(PoolSegments)
        /\ \A g \in PoolSegments \cup { Quiz[i].segmentIndex : i \in 1..Len(Quiz) } :
              CountIn(Quiz, g) <= Min(request.questionsPerSegment, CountIn(Pool, g))
        /\ NoQuestionTwice

C5_Witness ==
    /\ QuizOk
    /\ ~request.hasTotal
    /\ request.questionsPerSegment = 1
    /\ Len(Pool) = 3
    /\ CountIn(Pool, 0) = 2
    /\ CountIn(Pool, 1) = 1
    /\ Len(Quiz) = 2

\* C6: every question of an assembled quiz carries the questionIndex of its
\* zero-based position in the returned sequence, and totalQuestions is the
\* number of questions returned.
C6_QuestionIndex ==
    QuizOk =>
        /\ \A i \in 1..Len(Quiz) : Quiz[i].questionIndex = i - 1
        /\ response.totalQuestions = Len(Quiz)

C6_Witness ==
    /\ QuizOk
    /\ request.shuffle
    /\ Len(Quiz) = 3
    /\ Quiz[1]._id = 3
    /\ Quiz[1].questionIndex = 0

QuizRefused ==
    /\ request.op = "generateQuiz"
    /\ \/ ~findById(request.videoId).exists
       \/ Len(findById(request.videoId).questions) = 0

\* C9 as stated: quiz assembly for a missing video or an empty pool fails
\* with a NotFound error and returns no quiz.
C9_Original ==
    QuizRefused =>
        /\ ~response.ok
        /\ response.statusCode = 404 \/ response.code = "NOT_FOUND"

\* C9 amended: quiz assembly for a missing video or an empty pool fails and
\* returns no quiz; the error is a plain Error that the handler reports as
\* status 500 with code INTERNAL_ERROR and the message "Failed to generate
\* quiz: Video not found" or "...: No questions available for this video".
C9_QuizRefused ==
    QuizRefused =>
        /\ ~response.ok
        /\ response.statusCode = 500
        /\ response.code = "INTERNAL_ERROR"
        /\ response.message =
              <<"Failed to generate quiz: ",
                IF findById(request.videoId).exists
                THEN "No questions available for this video"
                ELSE "Video not found">>

C9_Witness ==
    /\ QuizRefused
    /\ video.exists
    /\ request.videoId = VideoId
    /\ ~response.ok

\* ----------------------------------------------------- claims on grading
GradeOk == request.op = "submitQuiz" /\ response.op = "submitQuiz" /\ response.ok
Submitted == request.answers

InRange(i) ==
    /\ Submitted[i].questionIndex >= 0
    /\ Submitted[i].questionIndex < Len(Pool)

\* C8: an answer whose questionIndex is outside the stored list gives no
\* result record, no score and no error, and still counts in totalQuestions.
C8_OutOfRangeSkipped ==
    /\ (request.op = "submitQuiz" /\ findById(request.videoId).exists
          /\ Len(findById(request.videoId).questions) > 0) => response.ok
    /\ GradeOk =>
          /\ Len(response.answers) =
                Cardinality({ i \in 1..Len(Submitted) : InRange(i) })
          /\ \A r \in 1..Len(response.answers) :
                /\ response.answers[r].questionIndex >= 0
                /\ response.answers[r].questionIndex < Len(Pool)
          /\ response.score =
                Cardinality({ i \in 1..Len(Submitted) :
                    /\ InRange(i)
                    /\ Submitted[i].selectedAnswer =
                          Pool[Submitted[i].questionIndex + 1].correctAnswer })
          /\ response.totalQuestions = Len(Submitted)

C8_Witness ==
    /\ GradeOk
    /\ Len(Submitted) = 2
    /\ InRange(1)
    /\ ~InRange(2)
    /\ Submitted[2].questionIndex >= Len(Pool)
    /\ Len(response.answers) = 1
    /\ response.score = 1
    /\ response.percentage = 50

\* -------------------------------------------- claims on question generation
GenSegs == generation.segments
GenQuestions == generation.questions

\* the language model gives nothing usable for segment i
LLMFails(i) ==
    \/ generation.llm[i].kind = "error"
    \/ ~generation.llm[i].hasJson
    \/ ~generation.llm[i].hasQuestionsArray
    \/ \A k \in 1..Len(generation.llm[i].questions) :
          \/ generation.llm[i].questions[k].question = <<>>
          \/ Len(generation.llm[i].questions[k].options) # 4

QuestionsOf(g) ==
    { k \in 1..Len(GenQuestions) : GenQuestions[k].segmentIndex = g }

PositionOf(g) == CHOOSE i \in 1..Len(GenSegs) : GenSegs[i].segmentIndex = g

\* C12: generation never fails as a whole: every segment contributes at
\* least one question, a segment whose language-model call fails or yields no
\* valid question gets exactly the built-in questions tagged with its
\* segmentIndex, and the questions come in the order of the segments.
C12_FallbackPerSegment ==
    generation.done =>
        /\ \A i \in 1..Len(GenSegs) : QuestionsOf(GenSegs[i].segmentIndex) # {}
        /\ \A i \in 1..Len(GenSegs) :
              LLMFails(i) =>
                 /\ Cardinality(QuestionsOf(GenSegs[i].segmentIndex)) = 3
                 /\ \A k \in QuestionsOf(GenSegs[i].segmentIndex) :
                       /\ GenQuestions[k].correctAnswer \in {1, 3}
                       /\ GenQuestions[k].explanation # ""
                       /\ GenQuestions[k].question \in
                            { <<"What is the main topic discussed in segment ",
                                GenSegs[i].segmentIndex + 1, "?">>,
                              <<"Which concept is emphasized in this part of the content?">>,
                              <<"What type of information is provided in this segment?">> }
        /\ \A k \in 1..Len(GenQuestions) :
              \E i \in 1..Len(GenSegs) : GenSegs[i].segmentIndex = GenQuestions[k].segmentIndex
        /\ \A a \in 1..Len(GenQuestions) : \A b \in a..Len(GenQuestions) :
              PositionOf(GenQuestions[a].segmentIndex)
                 <= PositionOf(GenQuestions[b].segmentIndex)

C12_Witness ==
    /\ generation.done
    /\ Len(GenSegs) = 2
    /\ generation.llm[1].kind = "text"
    /\ generation.llm[1].hasQuestionsArray
    /\ LLMFails(1)
    /\ ~LLMFails(2)
    /\ Len(GenQuestions) = 4

\* C20: every question produced by question generation has correctAnswer in
\* 0..3.
C20_Original ==
    generation.done =>
        \A k \in 1..Len(GenQuestions) : GenQuestions[k].correctAnswer \in 0..3

\* -------------------------------------------------- claims on the quizId
\* C17: the quizId returned by quiz assembly differs from the quizId of every
\* other quiz-assembly call.
C17_Original ==
    \A a \in 1..Len(quizLog) : \A b \in 1..Len(quizLog) :
        a # b => quizLog[a] # quizLog[b]

\* ------------------------------------------------ claims on the pipeline
Runs == 1..Len(tasks)
ProcessRuns == { i \in Runs : tasks[i].kind = "process" }

MalformedTranscript == WhisperData([hasSegmentsArray |-> FALSE, segments |-> <<>>])

MalformedMessage ==
    <<"Transcription failed: ",
      "Failed to segment transcript: Invalid transcript format: missing segments array">>

\* the statuses run i has handed to the store for a phase, oldest first
RECURSIVE PhaseStatuses(_, _)
PhaseStatuses(log, phase) ==
    IF log = <<>> THEN <<>>
    ELSE (IF Head(log).phase = phase THEN <<Head(log).status>> ELSE <<>>)
           \o PhaseStatuses(Tail(log), phase)

Logged(i, phase, status) ==
    \E k \in 1..Len(tasks[i].log) :
        tasks[i].log[k].phase = phase /\ tasks[i].log[k].status = status

\* run i takes its transcription step and whisper's transcript has no
\* segments array
MalformedStep(i) ==
    /\ tasks[i].kind = "process"
    /\ tasks[i].pc = "transcribing"
    /\ tasks'[i].pc # "transcribing"
    /\ tasks'[i].whisper = Defined(MalformedTranscript)

\* C11: a transcript without a segments array makes the whole transcription
\* fail with an error and no segments or full transcript, and the pipeline run
\* then saves transcriptionStatus 'failed' with the error message, stores no
\* segments and no transcript, and ends.
C11_MalformedFails ==
    [][ \A i \in Runs :
          MalformedStep(i) =>
            /\ ~transcribeVideo(MalformedTranscript).ok
            /\ transcribeVideo(MalformedTranscript).error = MalformedMessage
            /\ transcribeVideo(MalformedTranscript).segments = <<>>
            /\ transcribeVideo(MalformedTranscript).fullTranscript = Undefined
            /\ tasks'[i].pc = "done"
            /\ tasks'[i].log = Append(tasks[i].log,
                 StatusWrite("transcription", "failed", Defined(MalformedMessage)))
            /\ video'.transcriptionStatus = "failed"
            /\ video'.segments = video.segments
            /\ video'.fullTranscript = video.fullTranscript
            /\ video'.questions = video.questions
            /\ video'.questionGenerationStatus = video.questionGenerationStatus ]_vars

C11_Witness ==
    \E i \in ProcessRuns :
        /\ tasks[i].pc = "done"
        /\ tasks[i].whisper = Defined(MalformedTranscript)
        /\ video.transcriptionStatus = "failed"
        /\ video.transcriptionError = Defined(MalformedMessage)
        /\ video.segments = <<>>
        /\ video.fullTranscript = Undefined

\* C13: within one pipeline run, questionGenerationStatus 'processing' is saved
\* only after the run has saved transcriptionStatus 'completed'; a run whose
\* transcription failed saves nothing for the question phase and is done.
C13_TranscriptionFirst ==
    \A i \in ProcessRuns :
        /\ \A k \in 1..Len(tasks[i].log) :
              tasks[i].log[k].phase = "questions" =>
                 \E j \in 1..(k - 1) :
                    /\ tasks[i].log[j].phase = "transcription"
                    /\ tasks[i].log[j].status = "completed"
        /\ Logged(i, "transcription", "failed") =>
              /\ PhaseStatuses(tasks[i].log, "questions") = <<>>
              /\ tasks[i].pc = "done"
        /\ tasks[i].pc \in {"generating"} => Logged(i, "transcription", "completed")

C13_Witness ==
    /\ \E i \in ProcessRuns : Logged(i, "questions", "processing")
    /\ \E i \in ProcessRuns :
          Logged(i, "transcription", "failed") /\ tasks[i].pc = "done"

\* C14: within one pipeline run the statuses saved for a phase follow
\* processing -> completed or processing -> failed: never 'completed' or
\* 'failed' without 'processing' saved first, and never backwards.
C14_PhaseOrder ==
    \A i \in ProcessRuns : \A phase \in {"transcription", "questions"} :
        PhaseStatuses(tasks[i].log, phase) \in
            { <<>>, <<"processing">>,
              <<"processing", "completed">>, <<"processing", "failed">> }

C14_Witness ==
    /\ \E i \in ProcessRuns :
          /\ PhaseStatuses(tasks[i].log, "transcription") = <<"processing", "completed">>
          /\ PhaseStatuses(tasks[i].log, "questions") = <<"processing", "completed">>
    /\ \E i \in ProcessRuns :
          PhaseStatuses(tasks[i].log, "transcription") = <<"processing", "failed">>

StatusOf(v, phase) ==
    IF phase = "transcription" THEN v.transcriptionStatus ELSE v.questionGenerationStatus

\* a step takes the stored status of a phase out of 'failed'
LeavesFailed(phase) ==
    /\ video.exists
    /\ StatusOf(video, phase) = "failed"
    /\ StatusOf(video', phase) # "failed"

\* a step is a request handler that starts a run of this kind
Starts(kind) ==
    /\ Len(tasks') = Len(tasks) + 1
    /\ tasks'[Len(tasks')].kind = kind

\* C15 (as stated): once a phase's stored status is 'failed', only a reprocess
\* request changes it.
C15_Original ==
    [][ \A phase \in {"transcription", "questions"} :
          LeavesFailed(phase) => Starts("process") ]_vars

\* C15 (amended): nothing retries a failed phase by itself.  A stored 'failed'
\* changes only through a reprocess request, a retranscribe request (for the
\* transcription phase), a regenerate request (for the question phase), or the
\* save of a run that was still in flight and has not itself saved 'failed' for
\* that phase; and a run that saves 'failed' hands the error message to the
\* same save.
C15_NoAutomaticRetry ==
    [][ /\ \A phase \in {"transcription", "questions"} :
             LeavesFailed(phase) =>
                \/ Starts("process")
                \/ phase = "transcription" /\ Starts("retranscribe")
                \/ phase = "questions" /\ Starts("regenerate")
                \/ \E i \in Runs :
                      /\ tasks'[i] # tasks[i]
                      /\ tasks[i].pc # "done"
                      /\ ~Logged(i, phase, "failed")
        /\ \A i \in Runs : \A k \in 1..Len(tasks'[i].log) :
             tasks'[i].log[k].status = "failed" => tasks'[i].log[k].error # Undefined
      ]_vars

C15_Witness ==
    \E i \in ProcessRuns : \E j \in Runs :
        /\ tasks[i].pc = "done"
        /\ Logged(i, "transcription", "failed")
        /\ tasks[j].kind = "retranscribe"
        /\ tasks[j].pc = "start"
        /\ Len(tasks) = 2
        /\ video.transcriptionStatus = "processing"

VideoFields == DOMAIN NewVideo

TranscriptionFields ==
    {"transcriptionStatus", "fullTranscript", "segments", "transcriptionError"}

GenerationFields ==
    {"questionGenerationStatus", "questions", "questionGenerationError", "processedAt"}

\* run i, a pipeline run, takes a step that saves
SaveStep(i) ==
    /\ tasks[i].kind = "process"
    /\ tasks[i].pc \notin {"start", "done"}
    /\ tasks'[i] # tasks[i]

\* C16 (as stated): each pipeline run writes its own copy of the record, so
\* after a run's save the stored record is that run's copy.
C16_Original ==
    [][ \A i \in Runs :
          SaveStep(i) /\ tasks'[i].pc # "done" => video' = tasks'[i].doc ]_vars

\* C16 (amended): runs are not mutually excluded, and a save writes only the
\* fields its run has assigned: every stored field either keeps the value the
\* last writer of that field left or takes the value of the saving run's copy,
\* a transcription step writes no field of the question phase and a generation
\* step writes no field of the transcription phase.
C16_FieldwiseLastWriter ==
    [][ \A i \in Runs :
          SaveStep(i) =>
            /\ \A f \in VideoFields :
                  \/ video'[f] = video[f]
                  \/ tasks'[i].pc # "done" /\ video'[f] = tasks'[i].doc[f]
                  \/ tasks'[i].pc = "done" /\ f \in TranscriptionFields \cup GenerationFields
            /\ tasks[i].pc \in {"loaded", "transcribing"} =>
                  \A f \in VideoFields \ TranscriptionFields : video'[f] = video[f]
            /\ tasks[i].pc \in {"transcribed", "generating"} =>
                  \A f \in VideoFields \ GenerationFields : video'[f] = video[f] ]_vars

\* two pipeline runs are in flight, and the older one has saved its transcript
\* over the reset that started the newer one
C16_Witness ==
    /\ Len(tasks) = 2
    /\ tasks[1].kind = "process" /\ tasks[1].pc = "transcribed"
    /\ tasks[2].kind = "process" /\ tasks[2].pc = "start"
    /\ video.transcriptionStatus = "completed"
    /\ video.segments # <<>>
    /\ video.questionGenerationStatus = "pending"

\* C19: every stored question's segmentIndex is the segmentIndex of a stored
\* segment of the same video.
C19_Original ==
    video.exists =>
        \A k \in 1..Len(video.questions) :
            \E j \in 1..Len(video.segments) :
                video.segments[j].segmentIndex = video.questions[k].segmentIndex

\* -------------------------------------------- claims on question editing
\* C18: every stored question has exactly 4 options.
C18_Original ==
    video.exists =>
        \A k \in 1..Len(video.questions) : Len(video.questions[k].options) = 4

\* ------------------------------------------- claims on the coarse pass
\* the coarse segments after the first n fragments; the last is the running one
CoarseAfter(n) ==
    IF n = Len(Frags) THEN Coarse
    ELSE CoarsePass(SubSeq(Frags, 1, n), <<>>, <<>>, 0)

RunningAfter(n) == CoarseAfter(n)[Len(CoarseAfter(n))]

RunningDuration(n) == RunningAfter(n).endTime - RunningAfter(n).startTime

\* fragment n arrives while a running segment exists
ArrivesAtRunning(n) == n >= 2 /\ CoarseAfter(n - 1) # <<>>

\* fragment n closed the running segment and started a new one
StartsNew(n) ==
    /\ Len(CoarseAfter(n)) = Len(CoarseAfter(n - 1)) + 1
    /\ SubSeq(CoarseAfter(n), 1, Len(CoarseAfter(n - 1))) = CoarseAfter(n - 1)

\* fragment n was appended to the running segment: text and endTime as given
AppendedAs(n, text, endTime) ==
    /\ Len(CoarseAfter(n)) = Len(CoarseAfter(n - 1))
    /\ RunningAfter(n).text = RunningAfter(n - 1).text \o text
    /\ RunningAfter(n).endTime = endTime
    /\ RunningAfter(n).startTime = RunningAfter(n - 1).startTime

\* the end time the coarse pass reads from a fragment
EndOf(f) == IF f.end # 0 THEN f.end ELSE f.start + 1

\* C21 as stated: a fragment with non-empty text that arrives at a running
\* segment starts a new segment iff the running segment's duration is at
\* least 300, and otherwise its text is appended and the running endTime
\* becomes its end; N non-empty fragments of at least 300 seconds give N
\* coarse segments.
C21_Original ==
    Merged =>
        /\ \A n \in 2..Len(Frags) :
              (ArrivesAtRunning(n) /\ Frags[n].text # EmptyText) =>
                  IF RunningDuration(n - 1) >= 300
                  THEN StartsNew(n)
                  ELSE AppendedAs(n, Frags[n].text, Frags[n].end)
        /\ (\A n \in 1..Len(Frags) :
                Frags[n].text # EmptyText /\ Frags[n].end - Frags[n].start >= 300)
              => Len(Coarse) = Len(Frags)

\* C21 amended: a fragment whose trimmed text is non-empty and that arrives
\* at a running segment starts a new segment iff the running segment's own
\* duration is at least 300, whatever its own duration; otherwise its trimmed
\* text is appended after one space and the running endTime becomes its end
\* (its start + 1 when its end is 0 or missing).  A fragment whose trimmed
\* text is empty changes nothing.  N fragments with non-empty trimmed text,
\* each at least 300 seconds long, give N coarse segments.
C21_RunningDurationDecides ==
    Merged =>
        /\ \A n \in 2..Len(Frags) :
              ArrivesAtRunning(n) =>
                  IF trim(Frags[n].text) = EmptyText
                  THEN CoarseAfter(n) = CoarseAfter(n - 1)
                  ELSE IF RunningDuration(n - 1) >= 300
                  THEN /\ StartsNew(n)
                       /\ RunningAfter(n).startTime = Frags[n].start
                       /\ RunningAfter(n).endTime = EndOf(Frags[n])
                       /\ RunningAfter(n).text = trim(Frags[n].text)
                  ELSE AppendedAs(n, trim(Frags[n].text), EndOf(Frags[n]))
        /\ (\A n \in 1..Len(Frags) :
                /\ trim(Frags[n].text) # EmptyText
                /\ Frags[n].end - Frags[n].start >= 300)
              => Len(Coarse) = Len(Frags)

\* a fragment of 310 seconds is appended to a running segment of 10 seconds,
\* and the next fragment, 10 seconds long, starts a new segment
C21_Witness ==
    /\ Merged
    /\ Len(Frags) = 3
    /\ Frags[1].end - Frags[1].start < 300
    /\ Frags[2].end - Frags[2].start >= 300
    /\ Frags[3].end - Frags[3].start < 300
    /\ trim(Frags[3].text) # EmptyText
    /\ Len(Coarse) = 2
    /\ Coarse[1].endTime = Frags[2].end
    /\ Coarse[2].startTime = Frags[3].start

Openers == { i \in 1..Len(Coarse) : i = 1 \/ wordCount(Coarse[i].text) >= 50 }

\* the last coarse segment of the group that coarse segment i opens
GroupEnd(i) ==
    CHOOSE j \in i..Len(Coarse) :
        /\ \A m \in (i + 1)..j : m \notin Openers
        /\ j = Len(Coarse) \/ j + 1 \in Openers

InPool(answer) == answer.questionIndex >= 0 /\ answer.questionIndex < Len(Pool)

\* the submitted answers that address a stored question, in submission order
Graded == SelectSeq(Submitted, InPool)

\* the answers of someone who took quiz at its word: the questionIndex of
\* every displayed question with that question's own correctAnswer
AnswersTo(quiz) ==
    [i \in 1..Len(quiz) |-> [questionIndex |-> quiz[i].questionIndex,
                             selectedAnswer |-> quiz[i].correctAnswer]]

\* the quizzes generateQuiz can assemble from the stored pool
Quizzes ==
    { r.questions : r \in { q \in UNION { generateQuiz(req, clock) : req \in QuizRequests } :
                              q.ok } }

OnlyRunFinished ==
    /\ video.exists
    /\ Len(tasks) = 1
    /\ tasks[1].kind = "process"
    /\ tasks[1].pc = "done"

\* C24: a finished pipeline run leaves neither transcriptionStatus nor
\* questionGenerationStatus at 'processing' on the stored record.
C24_Original ==
    OnlyRunFinished =>
        /\ video.transcriptionStatus # "processing"
        /\ video.questionGenerationStatus # "processing"

\* ------------------------------------------- claims on the merged text
HasText(f) == trim(f.text) # EmptyText

\* the fragments whose trimmed text is non-empty, in input order
Spoken == SelectSeq(Frags, HasText)

\* their trimmed texts joined by single spaces
SpokenText == JoinTexts([i \in 1..Len(Spoken) |-> [text |-> trim(Spoken[i].text)]])

\* what transcribeVideo returns for the transcript file
Returned == transcribeVideo(WhisperData(transcriptData))

\* C25: the returned fullTranscript, the output segments' texts joined by
\* single spaces, is the trimmed texts of the fragments with non-empty trimmed
\* text joined in input order; the other fragments change nothing.
C25_NoTextLost ==
    Merged =>
        /\ Returned.ok
        /\ Returned.segments = Out
        /\ Returned.fullTranscript = Defined(JoinTexts(Out))
        /\ JoinTexts(Out) = SpokenText
        /\ Out = segmentTranscript([transcriptData EXCEPT !.segments = Spoken]).segments

\* three fragments, one blank and one with a leading space, merged into one
\* segment of two words
C25_Witness ==
    /\ Merged
    /\ Len(Frags) = 3
    /\ Len(Spoken) = 2
    /\ \E i \in 1..3 : HasText(Frags[i]) /\ Frags[i].text # trim(Frags[i].text)
    /\ Len(Out) = 1
    /\ Out[1].text = <<"b", "b">>
    /\ Returned.fullTranscript = Defined(<<"b", "b">>)

\* ------------------------------------------- claims on the segment times
\* every fragment has 0 < start <= end and starts no earlier than the
\* fragment before it ends
TimeOrderedFragments ==
    /\ \A i \in 1..Len(Frags) : 0 < Frags[i].start /\ Frags[i].start <= Frags[i].end
    /\ \A i \in 2..Len(Frags) : Frags[i].start >= Frags[i - 1].end

\* C26: for time-ordered fragments the output segments are time-ordered and
\* do not overlap: each starts no earlier than the one before it ends, the
\* first starts at the first non-empty fragment's start and the last ends at
\* the last non-empty fragment's end.
C26_TimeOrdered ==
    (Merged /\ TimeOrderedFragments) =>
        /\ \A k \in 1..Len(Out) : Out[k].startTime <= Out[k].endTime
        /\ \A k \in 2..Len(Out) : Out[k].startTime >= Out[k - 1].endTime
        /\ (Out = <<>>) = (Spoken = <<>>)
        /\ Spoken # <<>> =>
              /\ Out[1].startTime = Spoken[1].start
              /\ Out[Len(Out)].endTime = Spoken[Len(Spoken)].end

\* three ordered fragments: the coarse pass splits after the first, the third
\* joins the second, and both output segments keep the fragments' times
C26_Witness ==
    /\ Merged
    /\ TimeOrderedFragments
    /\ Len(Frags) = 3
    /\ Len(Spoken) = 3
    /\ Len(Out) = 2
    /\ Out[1].endTime = Frags[1].end
    /\ Out[2].startTime = Frags[2].start
    /\ Out[2].endTime = Frags[3].end

\* ------------------------------------------- claims on regeneration
\* run i is a regenerate request whose last save went through in this step
RegenerateSaved(i) ==
    /\ i <= Len(tasks)
    /\ tasks[i].kind = "regenerate"
    /\ tasks[i].pc = "generating"
    /\ tasks'[i].pc = "done"
    /\ Len(tasks'[i].log) > Len(tasks[i].log)

\* the questions the request read from the store when it arrived
LoadedQuestions(i) == tasks[i].doc.questions

\* those of them that belong to another segment than g, in stored order
KeptQuestions(i, g) ==
    LET Other(q) == q.segmentIndex # g IN SelectSeq(LoadedQuestions(i), Other)

\* C27: a regenerate request for segmentIndex g keeps every stored question
\* of another segment, unchanged and in order, removes the old questions of
\* segment g and appends the new ones, all of segment g, after the kept
\* ones; a request without segmentIndex replaces the whole list by the
\* generator's result.  A request reads the stored list when it arrives.
C27_ReplacesOneSegment ==
    [][ /\ \A i \in 1..Len(tasks) : RegenerateSaved(i) =>
              IF tasks[i].segmentIndex # Undefined
              THEN LET g == tasks[i].segmentIndex[1]
                       kept == KeptQuestions(i, g)
                   IN  /\ Len(video'.questions) > Len(kept)
                       /\ SubSeq(video'.questions, 1, Len(kept)) = kept
                       /\ \A k \in (Len(kept) + 1)..Len(video'.questions) :
                             video'.questions[k].segmentIndex = g
                       /\ \A k \in 1..Len(kept) : kept[k].segmentIndex # g
                       /\ LET One(sg) == sg.segmentIndex = g
                               segmentsToProcess == SelectSeq(tasks[i].doc.segments, One)
                           IN  \E llm \in [1..Len(segmentsToProcess) -> PipelineLLMOutcomes] :
                                 video'.questions =
                                   kept \o generateQuestions(segmentsToProcess, llm)
              ELSE \E llm \in [1..Len(tasks[i].doc.segments) -> PipelineLLMOutcomes] :
                       video'.questions = generateQuestions(tasks[i].doc.segments, llm)
        /\ Len(tasks') > Len(tasks) =>
              /\ tasks'[Len(tasks')].doc.questions = video.questions
              /\ video'.questions = video.questions
      ]_vars

\* segment 0 of a two-segment video was regenerated: the questions of
\* segment 1 now come first and those of segment 0 after them
C27_Witness ==
    /\ \E i \in 1..Len(tasks) :
          /\ tasks[i].kind = "regenerate"
          /\ tasks[i].pc = "done"
          /\ tasks[i].segmentIndex = Defined(0)
          /\ Len(tasks[i].log) = 2
    /\ Len(tasks) = 1
    /\ Len(video.questions) > 3
    /\ video.questions[1].segmentIndex = 1
    /\ video.questions[Len(video.questions)].segmentIndex = 0
    /\ video.questionGenerationStatus = "completed"

\* a regenerate request was turned down in this step: it is the only step
\* that neither starts a run nor moves one
RegenerateRejected == video.exists /\ tasks' = tasks

\* C28: a regenerate request that is rejected before any generation leaves
\* questionGenerationStatus, questionGenerationError and the stored questions
\* as they were.
C28_Original ==
    [][ RegenerateRejected =>
          /\ video'.questionGenerationStatus = video.questionGenerationStatus
          /\ video'.questionGenerationError = video.questionGenerationError
          /\ video'.questions = video.questions
      ]_vars

\* ------------------------------------------- claims on question offsets
\* the request handled in this step edits the questions of the stored video
Edits(op) ==
    /\ request = NoRequest
    /\ request'.op = op
    /\ request'.videoId = VideoId

\* questionIndex is an offset into the stored question list
ValidOffset(questionIndex) ==
    questionIndex >= 0 /\ questionIndex < Len(video.questions)

\* C29: updateQuestion and deleteQuestion with a questionIndex below 0 or at
\* or above the list length fail with an error and leave the stored list
\* unchanged; deleteQuestion with a valid index removes that one question and
\* keeps the others in order.
C29_Original ==
    [][ /\ (Edits("updateQuestion") \/ Edits("deleteQuestion")) =>
              (~ValidOffset(request'.questionIndex) =>
                  /\ ~response'.ok
                  /\ video'.questions = video.questions)
        /\ (Edits("deleteQuestion") /\ ValidOffset(request'.questionIndex)) =>
              /\ response'.ok
              /\ Len(video'.questions) = Len(video.questions) - 1
              /\ \A k \in 1..Len(video'.questions) :
                    video'.questions[k] =
                      video.questions[IF k <= request'.questionIndex THEN k ELSE k + 1]
      ]_vars

\* ------------------------------------------- claims on the grading bounds
\* a submission is graded in this step
Grades == request = NoRequest /\ request'.op = "submitQuiz"

\* C30: for a submission graded against a non-empty stored pool
\* 0 <= score <= number of result records <= number of submitted answers,
\* score is the number of result records with isCorrect true and
\* 0 <= percentage <= 100; grading changes nothing in the stored record.
C30_GradingBounds ==
    [][ Grades =>
          /\ video' = video
          /\ (findById(request'.videoId).exists
                 /\ Len(findById(request'.videoId).questions) > 0) =>
                /\ response'.ok
                /\ 0 <= response'.score
                /\ response'.score <= Len(response'.answers)
                /\ Len(response'.answers) <= Len(request'.answers)
                /\ response'.score =
                      Cardinality({ r \in 1..Len(response'.answers) :
                                      response'.answers[r].isCorrect })
                /\ 0 <= response'.percentage
                /\ response'.percentage <= 100
      ]_vars

\* two answers, one past the end of the pool and one wrong: one record,
\* score 0
C30_Witness ==
    /\ GradeOk
    /\ Len(Pool) > 0
    /\ Len(Submitted) = 2
    /\ Len(response.answers) = 1
    /\ ~response.answers[1].isCorrect
    /\ response.score = 0
    /\ response.percentage = 0

====
